---- MODULE Spec2Model ----
(***************************************************************************)
(* Model of the MSVD data pipeline: dataset/transform.py (frame and        *)
(* caption transforms) and dataset/MSVD.py (MSVDVocab, MSVDDataset, MSVD). *)
(*                                                                         *)
(* Python objects that are shared by reference (the configured             *)
(* init_word2idx dict, the stored feature sequence of a video) are kept    *)
(* as state variables, so that an in-place update made through one         *)
(* reference is seen through every other one.                              *)
(***************************************************************************)
EXTENDS Integers, Sequences, FiniteSets, TLC

(***************************************************************************)
(* Bounds of the model.                                                    *)
(***************************************************************************)
MaxFrames == 31         \* longest frame sequence handed to the frame transforms
MaxStoreFrames == 2     \* longest feature sequence in a video store
MaxBuilds == 2          \* most MSVDVocab constructions on one init_word2idx
MaxMinCount == 2        \* largest min_count
MaxRows == 2            \* most rows of a dataset's caption table

(***************************************************************************)
(* Generic helpers.                                                        *)
(***************************************************************************)
None == "None"

Max(a, b) == IF a >= b THEN a ELSE b

Range(s) == { s[i] : i \in DOMAIN s }

RECURSIVE Pow2(_)
Pow2(p) == IF p = 0 THEN 1 ELSE 2 * Pow2(p - 1)

RECURSIVE Repeat(_, _)
Repeat(x, k) == IF k <= 0 THEN <<>> ELSE <<x>> \o Repeat(x, k - 1)

(***************************************************************************)
(* IEEE-754 binary64 arithmetic, as far as np.linspace needs it.           *)
(* A natural number too wide for a machine integer is a little-endian      *)
(* sequence of LimbCount limbs in base LimbBase.                           *)
(***************************************************************************)
LimbBits == 15
LimbBase == 32768
LimbCount == 5
MantissaBits == 53

BigZero == [k \in 1..LimbCount |-> 0]

RECURSIVE BigMulFrom(_, _, _, _)
BigMulFrom(x, m, k, carry) ==
    IF k > LimbCount THEN <<>>
    ELSE LET t == x[k] * m + carry
         IN <<t % LimbBase>> \o BigMulFrom(x, m, k + 1, t \div LimbBase)

\* x * m for a small m
BigMulSmall(x, m) == BigMulFrom(x, m, 1, 0)

RECURSIVE BigDivFrom(_, _, _, _)
\* long division from the most significant limb down; returns <<quotient limbs
\* (little-endian), remainder>>
BigDivFrom(x, d, k, rem) ==
    IF k = 0 THEN <<<<>>, rem>>
    ELSE LET t == rem * LimbBase + x[k]
             rest == BigDivFrom(x, d, k - 1, t % d)
         IN <<rest[1] \o <<t \div d>>, rest[2]>>

BigDivSmall(x, d) == BigDivFrom(x, d, LimbCount, 0)[1]
BigModSmall(x, d) == BigDivFrom(x, d, LimbCount, 0)[2]

BigAddOne(x) ==
    LET carryInto(k) == \A j \in 1..(k - 1) : x[j] = LimbBase - 1
    IN [k \in 1..LimbCount |->
          IF carryInto(k) THEN (x[k] + 1) % LimbBase ELSE x[k]]

BigIsOdd(x) == x[1] % 2 = 1

\* x \div 2^bits
RECURSIVE BigShiftRight(_, _)
BigShiftRight(x, bits) ==
    IF bits = 0 THEN x
    ELSE IF bits >= LimbBits
         THEN BigShiftRight([k \in 1..LimbCount |->
                               IF k < LimbCount THEN x[k + 1] ELSE 0],
                            bits - LimbBits)
         ELSE BigDivSmall(x, Pow2(bits))

\* x * 2^bits
RECURSIVE BigShiftLeft(_, _)
BigShiftLeft(x, bits) ==
    IF bits = 0 THEN x
    ELSE IF bits >= LimbBits
         THEN BigShiftLeft([k \in 1..LimbCount |->
                              IF k > 1 THEN x[k - 1] ELSE 0],
                           bits - LimbBits)
         ELSE BigMulSmall(x, Pow2(bits))

BigFromSmall(v) == [k \in 1..LimbCount |-> IF k = 1 THEN v ELSE 0]

\* the value of x, which must fit one machine integer
BigToSmall(x) == x[1] + LimbBase * x[2]

\* x < 2^bits
BigBelowPow2(x, bits) == BigShiftRight(x, bits) = BigZero

\* round-half-to-even of x / 2^s, for 2^s below LimbBase
BigRoundShift(x, s) ==
    IF s = 0 THEN x
    ELSE LET q == BigDivSmall(x, Pow2(s))
             r == BigModSmall(x, Pow2(s))
             half == Pow2(s - 1)
         IN IF r > half \/ (r = half /\ BigIsOdd(q)) THEN BigAddOne(q) ELSE q

\* A finite non-negative double: mant * 2^exp with mant < 2^53 (or = 2^53).
FloatZero == [mant |-> BigZero, exp |-> 0]

FloatFromInt(v) == [mant |-> BigFromSmall(v), exp |-> 0]

\* floor(log2(a / b)) for a >= b >= 1
RECURSIVE Log2Quot(_, _, _)
Log2Quot(a, b, e) == IF b * Pow2(e + 1) <= a THEN Log2Quot(a, b, e + 1) ELSE e

\* the double nearest to a / b (ties to even), for integers a >= b >= 1
FloatDiv(a, b) ==
    LET e == Log2Quot(a, b, 0)
        num == BigMulSmall(BigShiftLeft(BigFromSmall(1), MantissaBits - 1 - e), a)
        q == BigDivSmall(num, b)
        r == BigModSmall(num, b)
        up == 2 * r > b \/ (2 * r = b /\ BigIsOdd(q))
    IN [mant |-> IF up THEN BigAddOne(q) ELSE q, exp |-> e - (MantissaBits - 1)]

\* least s with x < 2^(53 + s)
RECURSIVE ExcessBits(_, _)
ExcessBits(x, s) ==
    IF BigBelowPow2(x, MantissaBits + s) THEN s ELSE ExcessBits(x, s + 1)

\* the double nearest to i * f (ties to even), for a small integer i >= 0
FloatMulInt(i, f) ==
    LET t == BigMulSmall(f.mant, i)
        s == ExcessBits(t, 0)
    IN [mant |-> BigRoundShift(t, s), exp |-> f.exp + s]

\* Python int(y) for a double y >= 0: truncation
FloatToInt(f) ==
    IF f.exp >= 0 THEN BigToSmall(BigShiftLeft(f.mant, f.exp))
    ELSE BigToSmall(BigShiftRight(f.mant, 0 - f.exp))

\* np.linspace(0, stop, num) for integers stop >= 0, num >= 0:
\* step = stop / (num - 1); y = arange(0, num) * step + 0; y[-1] = stop
linspace(stop, num) ==
    IF num = 0 THEN <<>>
    ELSE IF num = 1 THEN <<FloatZero>>
    ELSE IF stop = 0 THEN [i \in 1..num |-> FloatZero]
    ELSE LET step == FloatDiv(stop, num - 1)
         IN [i \in 1..num |->
               IF i = num THEN FloatFromInt(stop) ELSE FloatMulInt(i - 1, step)]

(***************************************************************************)
(* Text.  A Python str is a sequence of one-character strings; a token is  *)
(* such a sequence too.                                                    *)
(***************************************************************************)
\* string.punctuation (but for the backquote, which no caption below holds)
Punctuation ==
    { "!", "\"", "#", "$", "%", "&", "'", "(", ")", "*", "+", ",", "-", ".",
      "/", ":", ";", "<", "=", ">", "?", "@", "[", "\\", "]", "^", "_",
      "{", "|", "}", "~" }

\* the characters str.split() treats as separators
Whitespace == { " ", "\t", "\n", "\r" }

UpperToLower ==
    [ A |-> "a", B |-> "b", C |-> "c", D |-> "d", E |-> "e", F |-> "f",
      G |-> "g", H |-> "h", I |-> "i", J |-> "j", K |-> "k", L |-> "l",
      M |-> "m", N |-> "n", O |-> "o", P |-> "p", Q |-> "q", R |-> "r",
      S |-> "s", T |-> "t", U |-> "u", V |-> "v", W |-> "w", X |-> "x",
      Y |-> "y", Z |-> "z" ]

RemovePunctuation(sentence) ==
    SelectSeq(sentence, LAMBDA c : c \notin Punctuation)

Lowercase(sentence) ==
    [i \in 1..Len(sentence) |->
       IF sentence[i] \in DOMAIN UpperToLower THEN UpperToLower[sentence[i]]
       ELSE sentence[i]]

\* str.split(): the maximal runs of non-whitespace characters, in order.
\* `word` is the run being read, `k` the next position.
RECURSIVE SplitFrom(_, _, _)
SplitFrom(sentence, k, word) ==
    IF k > Len(sentence) THEN (IF word = <<>> THEN <<>> ELSE <<word>>)
    ELSE IF sentence[k] \in Whitespace
         THEN (IF word = <<>> THEN <<>> ELSE <<word>>) \o SplitFrom(sentence, k + 1, <<>>)
         ELSE SplitFrom(sentence, k + 1, Append(word, sentence[k]))

SplitWithWhiteSpace(sentence) == SplitFrom(sentence, 1, <<>>)

\* words[:n_word] for n_word >= 0
Truncate(n_word, words) ==
    SubSeq(words, 1, IF n_word < Len(words) THEN n_word ELSE Len(words))

\* C.caption_n_max_word of the configuration
caption_n_max_word == 3

\* MSVD.transform_sentence
transform_sentence(sentence) ==
    Truncate(caption_n_max_word,
             SplitWithWhiteSpace(Lowercase(RemovePunctuation(sentence))))

(***************************************************************************)
(* Python dict: insertion-ordered keys and a value per key.                *)
(***************************************************************************)
DictEmpty == [keys |-> <<>>, val |-> <<>>]

DictHas(d, k) == k \in DOMAIN d.val

DictLen(d) == Len(d.keys)

\* d[k] = v: a new key goes last, an old key keeps its place
DictSet(d, k, v) ==
    IF DictHas(d, k) THEN [keys |-> d.keys, val |-> [d.val EXCEPT ![k] = v]]
    ELSE [keys |-> Append(d.keys, k), val |-> d.val @@ (k :> v)]

\* { v: k for k, v in d.items() }: of two keys with one value the later wins
RECURSIVE InvertFrom(_, _, _)
InvertFrom(d, i, acc) ==
    IF i > Len(d.keys) THEN acc
    ELSE InvertFrom(d, i + 1, DictSet(acc, d.val[d.keys[i]], d.keys[i]))

DictInvert(d) == InvertFrom(d, 1, DictEmpty)

(***************************************************************************)
(* Caption tables (the CSV files) and the words of the model.              *)
(***************************************************************************)
Row(video_id, start, end, language, description) ==
    [VideoID |-> video_id, Start |-> start, End |-> end,
     Language |-> language, Description |-> description, IsNull |-> FALSE]

\* a row whose Description is missing (NaN after read_csv)
NullRow(video_id, start, end, language) ==
    [VideoID |-> video_id, Start |-> start, End |-> end,
     Language |-> language, Description |-> <<>>, IsNull |-> TRUE]

s_A_cat == <<"A", " ", "c", "a", "t", ".">>
s_a_CAT_sat == <<"a", " ", "C", "A", "T", " ", "s", "a", "t">>
s_dog == <<"d", "o", "g">>
s_blank == <<" ", ".", " ">>
s_long == <<"a", " ", "c", "a", "t", ",", "\t", "a", " ", " ", "c", "a", "t", "!", " ", "D", "o", "g">>
s_unk_dog == <<"U", "n", "k", " ", "d", "o", "g", "?">>

w_a == <<"a">>
w_cat == <<"c", "a", "t">>
w_sat == <<"s", "a", "t">>
w_dog == <<"d", "o", "g">>
w_unk == <<"u", "n", "k">>
w_PAD == <<"<", "P", "A", "D", ">">>
w_SOS == <<"<", "S", "O", "S", ">">>
w_EOS == <<"<", "E", "O", "S", ">">>

\* every token a normalized caption of the model can hold, and the markers
Words == { w_a, w_cat, w_sat, w_dog, w_unk, w_PAD, w_SOS, w_EOS }

\* the caption files a vocabulary is built from (C.total_caption_fpath)
FileEmpty == <<>>
FileScenario ==
    << Row("x", 0, 5, "English", s_A_cat),
       Row("x", 0, 5, "English", s_a_CAT_sat),
       Row("y", 0, 5, "English", s_dog) >>
FileMixed ==
    << Row("x", 0, 5, "Korean", s_dog),
       NullRow("x", 0, 5, "English"),
       Row("y", 0, 5, "English", s_blank),
       Row("y", 0, 5, "English", s_A_cat) >>
FileLong ==
    << Row("x", 0, 5, "English", s_long),
       Row("y", 0, 5, "English", s_unk_dog) >>
FileShort == << Row("x", 0, 5, "English", s_dog) >>

CaptionFiles == { FileEmpty, FileScenario, FileMixed, FileLong, FileShort }

\* the configured reserved mappings (C.init_word2idx), as dicts
ReservedMarked ==
    DictSet(DictSet(DictSet(DictEmpty, w_PAD, 0), w_SOS, 1), w_EOS, 2)
ReservedPlain ==
    DictSet(DictSet(DictSet(DictEmpty, w_PAD, 0), w_EOS, 1), w_unk, 2)

ReservedMappings == { ReservedMarked, ReservedPlain }

(***************************************************************************)
(* MSVDVocab                                                               *)
(***************************************************************************)
\* df[df['Language'] == 'English'], df[pd.notnull(df['Description'])]
FilterRows(rows) ==
    SelectSeq(rows, LAMBDA r : r.Language = "English" /\ ~r.IsNull)

\* MSVDVocab.load_captions: df['Description'].values
VocabLoadCaptions(rows) ==
    LET df == FilterRows(rows)
    IN [i \in 1..Len(df) |-> df[i].Description]

\* for word in words: word_freq_dict[word] += 1   (a defaultdict of 0)
RECURSIVE CountWords(_, _, _)
CountWords(words, j, freq) ==
    IF j > Len(words) THEN freq
    ELSE CountWords(words, j + 1,
                    DictSet(freq, words[j],
                            (IF DictHas(freq, words[j]) THEN freq.val[words[j]] ELSE 0) + 1))

\* the loop over the captions: the running max_sentence_len and the counts
RECURSIVE CountCaptions(_, _, _)
CountCaptions(captions, i, acc) ==
    IF i > Len(captions) THEN acc
    ELSE LET words == transform_sentence(captions[i])
         IN CountCaptions(captions, i + 1,
                          [max_sentence_len |-> Max(acc.max_sentence_len, Len(words)),
                           word_freq_dict |-> CountWords(words, 1, acc.word_freq_dict)])

RECURSIVE SumFreq(_, _, _)
SumFreq(freq, words, j) ==
    IF j > Len(words) THEN 0
    ELSE freq.val[words[j]] + SumFreq(freq, words, j + 1)

\* [ word for word, freq in word_freq_dict.items() if freq >= min_count ]
KeepWords(freq, min_count) ==
    SelectSeq(freq.keys, LAMBDA w : freq.val[w] >= min_count)

\* for idx, word in enumerate(keep_words, start): word2idx[word] = idx;
\* idx2word[idx] = word.  `maps` holds both dicts.
RECURSIVE AssignIndices(_, _, _, _)
AssignIndices(keep_words, j, start, maps) ==
    IF j > Len(keep_words) THEN maps
    ELSE AssignIndices(keep_words, j + 1, start,
                       [word2idx |-> DictSet(maps.word2idx, keep_words[j], start + j - 1),
                        idx2word |-> DictSet(maps.idx2word, start + j - 1, keep_words[j])])

\* MSVDVocab.__init__ followed by build(), given the dict handed in as
\* init_word2idx.  word2idx is that very dict, updated in place: the record
\* returns its final contents for the caller to store back in the object.
MSVDVocab(rows, init_word2idx, min_count) ==
    LET captions == VocabLoadCaptions(rows)
        counted == CountCaptions(captions, 1,
                                 [max_sentence_len |-> -1, word_freq_dict |-> DictEmpty])
        freq == counted.word_freq_dict
        keep_words == KeepWords(freq, min_count)
        maps == AssignIndices(keep_words, 1, DictLen(init_word2idx),
                              [word2idx |-> init_word2idx,
                               idx2word |-> DictInvert(init_word2idx)])
    IN [ caption_fpath |-> rows,
         min_count |-> min_count,
         word2idx |-> maps.word2idx,
         idx2word |-> maps.idx2word,
         word_freq_dict |-> freq,
         max_sentence_len |-> counted.max_sentence_len,
         n_vocabs_untrimmed |-> DictLen(freq),
         n_words_untrimmed |-> SumFreq(freq, freq.keys, 1),
         n_vocabs |-> DictLen(maps.word2idx),
         n_words |-> SumFreq(freq, keep_words, 1),
         handed |-> init_word2idx ]

(***************************************************************************)
(* Frame transforms (dataset/transform.py)                                 *)
(*                                                                         *)
(* A frame sequence is [kind, items]: kind "list" for a Python list of     *)
(* frames, "ndarray" for a 2-D numpy array (what the h5py store yields);   *)
(* items are the frames, each [shape, val] with val = 0 for an all-zero    *)
(* frame.                                                                  *)
(***************************************************************************)
SeqKinds == { "list", "ndarray" }

FeatureDims == { 1, 2 }

\* the frames of an input sequence: frame i carries the value i
InputFrames(n, dim) == [i \in 1..n |-> [shape |-> dim, val |-> i]]

\* np.zeros_like(frame)
zeros_like(frame) == [shape |-> frame.shape, val |-> 0]

\* UniformSample(n_sample).__call__(frames).  same: the value returned is
\* the argument object itself.
UniformSample(n, fr) ==
    LET n_frames == Len(fr.items)
    IN IF n_frames < n
       THEN [same |-> TRUE, kind |-> fr.kind, items |-> fr.items, sample_indices |-> <<>>]
       ELSE LET ys == linspace(n_frames - 1, n)
                sample_indices == [i \in 1..n |-> FloatToInt(ys[i])]
            IN [same |-> FALSE, kind |-> "list",
                items |-> [i \in 1..n |-> fr.items[sample_indices[i] + 1]],
                sample_indices |-> sample_indices]

\* ZeroPadIfLessThan(n).__call__(frames):
\*   while len(frames) < n: frames.append(np.zeros_like(frames[0]))
\* An ndarray has no append (AttributeError, raised before frames[0] is
\* read); frames[0] of an empty list raises IndexError.  On "ok" the items
\* are those of the argument object after the in-place appends.
ZeroPadIfLessThan(n, fr) ==
    IF Len(fr.items) >= n THEN [status |-> "ok", kind |-> fr.kind, items |-> fr.items]
    ELSE IF fr.kind = "ndarray"
         THEN [status |-> "AttributeError", kind |-> fr.kind, items |-> fr.items]
    ELSE IF Len(fr.items) = 0
         THEN [status |-> "IndexError", kind |-> fr.kind, items |-> fr.items]
    ELSE [status |-> "ok", kind |-> fr.kind,
          items |-> fr.items \o Repeat(zeros_like(fr.items[1]), n - Len(fr.items))]

(***************************************************************************)
(* Caption transforms (dataset/transform.py)                               *)
(***************************************************************************)
\* [ word2idx[word] for word in words if word in word2idx ]
ToIndex(word2idx, words) ==
    LET known == SelectSeq(words, LAMBDA w : DictHas(word2idx, w))
    IN [j \in 1..Len(known) |-> word2idx.val[known[j]]]

\* words + [ token ]
PadLast(token, words) == Append(words, token)

\* n_pads = length - len(words); words + [ token ] * n_pads
\* (a list times a number <= 0 is the empty list)
PadToLength(token, length, words) ==
    LET n_pads == length - Len(words)
    IN words \o Repeat(token, n_pads)

\* ToTensor: a fresh tensor of the given dtype holding the array's values
ToTensor(dtype, array) == [dtype |-> dtype, data |-> array]

\* MSVD.build_data_loaders, lines 73-79: the parts of transform_caption that
\* are read from the vocabulary when the chain is composed.  ToIndex keeps a
\* reference to the word2idx dict itself, so it is passed at call time.
BuildTransformCaption(word2idx, max_sentence_len) ==
    [ eos |-> word2idx.val[w_EOS],
      pad |-> word2idx.val[w_PAD],
      length |-> max_sentence_len + 1 ]

\* transform_caption(caption)
TransformCaption(tc, word2idx, caption) ==
    ToTensor("long",
             PadToLength(tc.pad, tc.length,
                         PadLast(tc.eos,
                                 ToIndex(word2idx, transform_sentence(caption)))))

(***************************************************************************)
(* MSVDDataset                                                             *)
(*                                                                         *)
(* A video store (the HDF5 file) is [order, data]: the keys in the order   *)
(* the file enumerates them, and the feature sequence under each key.      *)
(* A PairedExample is [video, caption] where video is the key of the       *)
(* stored sequence object it refers to: the pair holds a reference, never  *)
(* a copy, so the object is read through `videos` whenever it is used.     *)
(***************************************************************************)
\* "{}_{}_{}".format(video_id, start, end); a store key is such a triple too
FormatVid(video_id, start, end) == << video_id, start, end >>

VX == FormatVid("x", 0, 5)
VY == FormatVid("y", 0, 5)

StoreVids == { VX, VY }

\* MSVDDataset.load_videos: videos[vid] = fin[vid].value for vid in fin
DatasetLoadVideos(store) == [keys |-> store.order, val |-> store.data]

\* the loop of load_captions: captions[vid].append(caption), captions a
\* defaultdict of []
RECURSIVE GroupCaptions(_, _, _)
GroupCaptions(df, i, caps) ==
    IF i > Len(df) THEN caps
    ELSE LET vid == FormatVid(df[i].VideoID, df[i].Start, df[i].End)
             old == IF DictHas(caps, vid) THEN caps.val[vid] ELSE <<>>
         IN GroupCaptions(df, i + 1, DictSet(caps, vid, Append(old, df[i].Description)))

\* load_captions without the Language filter
DatasetLoadCaptionsAnyLanguage(rows) ==
    GroupCaptions(SelectSeq(rows, LAMBDA r : ~r.IsNull), 1, DictEmpty)

\* MSVDDataset.load_captions
DatasetLoadCaptions(rows) == GroupCaptions(FilterRows(rows), 1, DictEmpty)

\* the loops of build_video_caption_pairs from the k-th video on; reading
\* captions[vid] of a defaultdict adds the key when it is missing
RECURSIVE PairVideos(_, _, _)
PairVideos(vids, k, acc) ==
    IF k > Len(vids.keys) THEN acc
    ELSE LET vid == vids.keys[k]
             caps == IF DictHas(acc.captions, vid) THEN acc.captions
                     ELSE DictSet(acc.captions, vid, <<>>)
             mine == caps.val[vid]
         IN PairVideos(vids, k + 1,
                       [captions |-> caps,
                        video_caption_pairs |->
                            acc.video_caption_pairs \o
                            [j \in 1..Len(mine) |-> [video |-> vid, caption |-> mine[j]]]])

\* MSVDDataset.build_video_caption_pairs
BuildVideoCaptionPairs(store, rows) ==
    LET vids == DatasetLoadVideos(store)
        built == PairVideos(vids, 1, [captions |-> DatasetLoadCaptions(rows),
                                      video_caption_pairs |-> <<>>])
    IN [videos |-> vids, captions |-> built.captions,
        video_caption_pairs |-> built.video_caption_pairs]

\* MSVDDataset.__len__
DatasetLen(vids) == DictLen(vids)

\* self.video_caption_pairs[idx] of a Python list: 0 when idx is out of
\* range (IndexError), else the 1-based position read; a negative idx
\* counts from the end
ListPosition(len, idx) ==
    IF 0 <= idx /\ idx < len THEN idx + 1
    ELSE IF 0 - len <= idx /\ idx < 0 THEN len + idx + 1
    ELSE 0

\* MSVDDataset.__getitem__(idx) with transform_frame = UniformSample(n),
\* ZeroPadIfLessThan(n), ToTensor(float) and with transform_caption.
\* stored: the items of the video's stored sequence object after the call.
GetItem(idx, pairs, vids, n, tc, word2idx) ==
    LET pos == ListPosition(Len(pairs), idx)
    IN IF pos = 0 THEN [status |-> "IndexError"]
       ELSE LET vid == pairs[pos].video
                sampled == UniformSample(n, vids.val[vid])
                pad == ZeroPadIfLessThan(n, sampled)
                stored == IF sampled.same THEN pad.items ELSE vids.val[vid].items
            IN IF pad.status # "ok"
               THEN [status |-> pad.status, vid |-> vid, stored |-> stored]
               ELSE [status |-> "ok", vid |-> vid, stored |-> stored,
                     video |-> ToTensor("float", pad.items),
                     caption |-> TransformCaption(tc, word2idx, pairs[pos].caption)]

(***************************************************************************)
(* State                                                                   *)
(***************************************************************************)
VARIABLES
    pc,                  \* where the program is
    init_word2idx,       \* the dict object C.init_word2idx (every vocabulary's word2idx)
    vocabs,              \* the MSVDVocab objects built on init_word2idx, oldest first
    transform_caption,   \* MSVD.transform_caption
    encoded,             \* the last call of transform_caption: [caption, out]
    frames_in,           \* the frame sequence as it was handed to the frame transforms
    frames,              \* that sequence object now
    n_sample,            \* encoder_output_len
    samples,             \* what UniformSample returned
    padded,              \* what ZeroPadIfLessThan returned
    video_fpath,         \* the video store MSVDDataset was built from
    caption_fpath,       \* the caption table MSVDDataset was built from
    videos,              \* MSVDDataset.videos: the stored feature sequences by video
    captions,            \* MSVDDataset.captions
    video_caption_pairs, \* MSVDDataset.video_caption_pairs
    last_get             \* the last __getitem__ call: [idx, result]

vars == << pc, init_word2idx, vocabs, transform_caption, encoded, frames_in, frames,
           n_sample, samples, padded, video_fpath, caption_fpath, videos, captions, video_caption_pairs, last_get >>

vocabVars == << init_word2idx, vocabs >>
captionVars == << transform_caption, encoded >>
frameVars == << frames_in, frames, n_sample, samples, padded >>
dataVars == << video_fpath, caption_fpath, videos, captions, video_caption_pairs, last_get >>

MinCounts == 0..MaxMinCount

\* every raw caption of the caption files
CaptionStrings == { s_A_cat, s_a_CAT_sat, s_dog, s_blank, s_long, s_unk_dog }

(***************************************************************************)
(* SpecVocab: vocabularies built one after another on one init_word2idx.   *)
(***************************************************************************)
InitVocab ==
    /\ pc = "config"
    /\ init_word2idx \in ReservedMappings
    /\ vocabs = <<>>
    /\ transform_caption = None /\ encoded = None
    /\ frames_in = None /\ frames = None /\ n_sample = None
    /\ samples = None /\ padded = None
    /\ video_fpath = None /\ caption_fpath = None
    /\ videos = None /\ captions = None /\ video_caption_pairs = None
    /\ last_get = None

\* MSVDVocab(caption_fpath, C.init_word2idx, min_count, transform_sentence)
NewVocab(rows, min_count) ==
    /\ Len(vocabs) < MaxBuilds
    /\ LET v == MSVDVocab(rows, init_word2idx, min_count)
       IN /\ init_word2idx' = v.word2idx
          /\ vocabs' = Append(vocabs, v)
    /\ UNCHANGED << pc, captionVars, frameVars, dataVars >>

NextVocab == \E rows \in CaptionFiles, min_count \in MinCounts : NewVocab(rows, min_count)

SpecVocab == InitVocab /\ [][NextVocab]_vars

(***************************************************************************)
(* SpecCaption: an MSVD object is built, then captions are encoded.        *)
(***************************************************************************)
\* MSVD.__init__: build_vocab, then build_data_loaders composes transform_caption
NewMSVD(rows, min_count) ==
    /\ pc = "config"
    /\ LET v == MSVDVocab(rows, init_word2idx, min_count)
       IN /\ init_word2idx' = v.word2idx
          /\ vocabs' = Append(vocabs, v)
          /\ transform_caption' = BuildTransformCaption(v.word2idx, v.max_sentence_len)
    /\ pc' = "built"
    /\ UNCHANGED << encoded, frameVars, dataVars >>

\* self.transform_caption(caption), as MSVDDataset.__getitem__ calls it
Encode(caption) ==
    /\ pc \in { "built", "encoded" }
    /\ encoded' = [caption |-> caption,
                   out |-> TransformCaption(transform_caption, init_word2idx, caption)]
    /\ pc' = "encoded"
    /\ UNCHANGED << vocabVars, transform_caption, frameVars, dataVars >>

NextCaption ==
    \/ \E rows \in CaptionFiles, min_count \in MinCounts : NewMSVD(rows, min_count)
    \/ \E caption \in CaptionStrings : Encode(caption)

SpecCaption == InitVocab /\ [][NextCaption]_vars

(***************************************************************************)
(* SpecFrames: UniformSample, then ZeroPadIfLessThan, on one sequence.     *)
(***************************************************************************)
InitFrames ==
    /\ pc = "input"
    /\ \E kind \in SeqKinds, n \in 0..MaxFrames, dim \in FeatureDims :
          frames_in = [kind |-> kind, items |-> InputFrames(n, dim)]
    /\ frames = frames_in
    /\ n_sample \in 0..(MaxFrames + 1)
    /\ samples = None /\ padded = None
    /\ init_word2idx = None /\ vocabs = None
    /\ transform_caption = None /\ encoded = None
    /\ video_fpath = None /\ caption_fpath = None
    /\ videos = None /\ captions = None /\ video_caption_pairs = None
    /\ last_get = None

Sample ==
    /\ pc = "input"
    /\ samples' = UniformSample(n_sample, frames)
    /\ pc' = "sampled"
    /\ UNCHANGED << frames_in, frames, n_sample, padded, vocabVars, captionVars, dataVars >>

\* the appends land in the input object when UniformSample returned it
Pad ==
    /\ pc = "sampled"
    /\ padded' = ZeroPadIfLessThan(n_sample, samples)
    /\ frames' = IF samples.same THEN [frames EXCEPT !.items = padded'.items] ELSE frames
    /\ pc' = "padded"
    /\ UNCHANGED << frames_in, n_sample, samples, vocabVars, captionVars, dataVars >>

NextFrames == Sample \/ Pad

SpecFrames == InitFrames /\ [][NextFrames]_vars

(***************************************************************************)
(* SpecData, SpecGet: an MSVDDataset is built; it is read by __getitem__.  *)
(***************************************************************************)
\* C.encoder_output_len of the configuration the dataset's transform_frame
\* is composed with
encoder_output_len == 2

\* the vocabulary of the MSVD object whose transforms the dataset is given
DataVocab == MSVDVocab(FileScenario, ReservedMarked, 1)

\* the rows a dataset's caption table is made of
DataRows ==
    { Row("x", 0, 5, "English", s_A_cat),
      Row("x", 0, 5, "English", s_long),
      Row("y", 0, 5, "English", s_dog),
      Row("x", 0, 9, "English", s_dog),
      Row("y", 0, 5, "Korean", s_dog),
      NullRow("x", 0, 5, "English") }

CaptionTables == UNION { [1..k -> DataRows] : k \in 0..MaxRows }

\* the orders a store may enumerate its keys in: no key twice
StoreOrders ==
    { o \in UNION { [1..k -> StoreVids] : k \in 0..Cardinality(StoreVids) } :
        \A i, j \in DOMAIN o : i # j => o[i] # o[j] }

\* the feature sequence stored under vid, n frames long
StoredFrames(kind, vid, n) ==
    [kind |-> kind, items |-> InputFrames(n, IF vid = VX THEN 1 ELSE 2)]

VideoStores ==
    { [order |-> o, data |-> [vid \in Range(o) |-> StoredFrames(kind, vid, len[vid])]] :
        o \in StoreOrders, kind \in SeqKinds, len \in [StoreVids -> 0..MaxStoreFrames] }

GetIndices == (0 - (MaxRows + 1))..(MaxRows + 1)

InitData ==
    /\ pc = "config"
    /\ init_word2idx = DataVocab.word2idx
    /\ vocabs = << DataVocab >>
    /\ transform_caption = BuildTransformCaption(DataVocab.word2idx, DataVocab.max_sentence_len)
    /\ n_sample = encoder_output_len
    /\ encoded = None
    /\ frames_in = None /\ frames = None /\ samples = None /\ padded = None
    /\ video_fpath = None /\ caption_fpath = None
    /\ videos = None /\ captions = None /\ video_caption_pairs = None
    /\ last_get = None

\* MSVDDataset(video_fpath, caption_fpath, transform_frame, transform_caption)
NewDataset(store, rows) ==
    /\ pc = "config"
    /\ LET d == BuildVideoCaptionPairs(store, rows)
       IN /\ videos' = d.videos
          /\ captions' = d.captions
          /\ video_caption_pairs' = d.video_caption_pairs
    /\ video_fpath' = store
    /\ caption_fpath' = rows
    /\ pc' = "built"
    /\ UNCHANGED << last_get, vocabVars, captionVars, frameVars >>

\* dataset[idx]
Get(idx) ==
    /\ pc \in { "built", "read" }
    /\ LET r == GetItem(idx, video_caption_pairs, videos, n_sample,
                        transform_caption, init_word2idx)
       IN /\ last_get' = [idx |-> idx, result |-> r]
          /\ videos' = IF r.status = "IndexError" THEN videos
                       ELSE [videos EXCEPT !.val[r.vid].items = r.stored]
    /\ pc' = "read"
    /\ UNCHANGED << video_fpath, caption_fpath, captions, video_caption_pairs,
                    vocabVars, captionVars, frameVars >>

\* SpecData: the construction alone
NextData ==
    pc = "config" /\ \E store \in VideoStores, rows \in CaptionTables : NewDataset(store, rows)

SpecData == InitData /\ [][NextData]_vars

\* SpecGet: the construction, then any sequence of dataset[idx]
NextGet ==
    \/ pc = "config" /\ \E store \in VideoStores, rows \in CaptionTables : NewDataset(store, rows)
    \/ pc # "config" /\ \E idx \in GetIndices : Get(idx)

SpecGet == InitData /\ [][NextGet]_vars

(***************************************************************************)
(* Properties                                                              *)
(***************************************************************************)
IsEnglishCaption(r) == r.Language = "English" /\ ~r.IsNull

\* the tokens of every caption of a table, in order
RECURSIVE TokensFrom(_, _)
TokensFrom(rows, i) ==
    IF i > Len(rows) THEN <<>>
    ELSE (IF IsEnglishCaption(rows[i]) THEN transform_sentence(rows[i].Description) ELSE <<>>)
         \o TokensFrom(rows, i + 1)

\* how often w occurs in the normalized captions of a table
Frequency(w, rows) ==
    LET toks == TokensFrom(rows, 1)
    IN Cardinality({ j \in DOMAIN toks : toks[j] = w })

\* the reserved mapping as it was configured: what the first build was handed
Configured == vocabs[1].handed

\* the examples of one video: its captions in table order
ExamplesOf(rows, vid) ==
    LET mine == SelectSeq(rows, LAMBDA r : IsEnglishCaption(r)
                                           /\ << r.VideoID, r.Start, r.End >> = vid)
    IN [j \in 1..Len(mine) |-> [video |-> vid, caption |-> mine[j].Description]]

\* the examples of the videos order[k..], video by video
RECURSIVE JoinFrom(_, _, _)
JoinFrom(order, rows, k) ==
    IF k > Len(order) THEN <<>>
    ELSE ExamplesOf(rows, order[k]) \o JoinFrom(order, rows, k + 1)

\* C1 (as claimed): every encoded caption has length max_sentence_len + 1:
\* the indices of its in-vocabulary tokens in order, one EOS, then only PAD.
\* Stated for a vocabulary that saw a caption (max_sentence_len >= 0); with
\* an empty corpus the claimed length is 0, which no output with an EOS has.
C1_EncodedHasFixedLength ==
    (pc = "encoded" /\ vocabs[1].max_sentence_len >= 0) =>
        LET out == encoded.out.data
            words == transform_sentence(encoded.caption)
            known == SelectSeq(words, LAMBDA w : DictHas(init_word2idx, w))
        IN /\ Len(out) = vocabs[1].max_sentence_len + 1
           /\ Len(known) + 1 <= Len(out)
           /\ \A j \in 1..Len(known) : out[j] = init_word2idx.val[known[j]]
           /\ out[Len(known) + 1] = init_word2idx.val[w_EOS]
           /\ \A j \in (Len(known) + 2)..Len(out) : out[j] = init_word2idx.val[w_PAD]

\* C2 (as claimed): UniformSample then ZeroPadIfLessThan yields exactly
\* n_sample frames; a shorter input comes back followed by zero frames shaped
\* like its first frame.  Stated for an input of at least one frame.
C2_SampleThenPadYieldsTarget ==
    (pc = "padded" /\ Len(frames_in.items) >= 1) =>
        LET n == Len(frames_in.items)
        IN /\ padded.status = "ok"
           /\ Len(padded.items) = n_sample
           /\ n < n_sample =>
                /\ SubSeq(padded.items, 1, n) = frames_in.items
                /\ \A j \in (n + 1)..n_sample :
                      padded.items[j] = [shape |-> frames_in.items[1].shape, val |-> 0]

\* C3 (as claimed): __len__ is the number of (video, caption) pairs.
C3_LenCountsPairs ==
    pc = "built" => DatasetLen(videos) = Len(video_caption_pairs)

\* C4 (as claimed): dataset[i] is the i-th example when 0 <= i < len(dataset)
\* and raises IndexError for every other i.
C4_GetChecksRange ==
    pc = "read" =>
        LET i == last_get.idx
            r == last_get.result
        IN IF 0 <= i /\ i < DatasetLen(videos)
           THEN /\ r.status = "ok"
                /\ i < Len(video_caption_pairs)
                /\ r.vid = video_caption_pairs[i + 1].video
                /\ r.caption = TransformCaption(transform_caption, init_word2idx,
                                                video_caption_pairs[i + 1].caption)
           ELSE r.status = "IndexError"

\* C5: after build_video_caption_pairs the example list is, video by video
\* in the store's order, that video's captions in table order, each example
\* referring to the stored sequence of its video; a video without captions
\* and a caption of a video the store lacks add nothing.
C5_PairsJoinVideosAndCaptions ==
    pc = "built" =>
        /\ video_caption_pairs = JoinFrom(video_fpath.order, caption_fpath, 1)
        /\ \A j \in DOMAIN video_caption_pairs :
              /\ DictHas(videos, video_caption_pairs[j].video)
              /\ videos.val[video_caption_pairs[j].video]
                    = video_fpath.data[video_caption_pairs[j].video]

\* C5 witness: a built dataset with an example, a stored video without
\* captions and a caption whose video the store lacks
C5_Witness ==
    /\ pc = "built"
    /\ Len(video_caption_pairs) >= 1
    /\ \E vid \in Range(video_fpath.order) : ExamplesOf(caption_fpath, vid) = <<>>
    /\ \E i \in DOMAIN caption_fpath :
          /\ IsEnglishCaption(caption_fpath[i])
          /\ << caption_fpath[i].VideoID, caption_fpath[i].Start, caption_fpath[i].End >>
                \notin Range(video_fpath.order)

\* C6 (as claimed): after every build idx2word is the exact inverse of
\* word2idx, the reserved words keep their indices and the kept corpus words
\* take consecutive indices from the size of the reserved block.
C6_Idx2wordIsInverse ==
    \A k \in DOMAIN vocabs :
        LET w2i == vocabs[k].word2idx
            i2w == vocabs[k].idx2word
            kept == KeepWords(vocabs[k].word_freq_dict, vocabs[k].min_count)
        IN /\ \A a, b \in DOMAIN w2i.val : w2i.val[a] = w2i.val[b] => a = b
           /\ DictLen(w2i) = DictLen(i2w)
           /\ \A w \in DOMAIN w2i.val : DictHas(i2w, w2i.val[w]) /\ i2w.val[w2i.val[w]] = w
           /\ \A r \in DOMAIN Configured.val : w2i.val[r] = Configured.val[r]
           /\ \A j \in DOMAIN kept : w2i.val[kept[j]] = DictLen(Configured) + j - 1

\* C7 (as claimed, for min_count >= 1): after every build a word is a key of
\* word2idx exactly if it is a reserved word or occurs at least min_count
\* times in the normalized corpus; the untrimmed totals count every word.
C7_KeyIffReservedOrFrequent ==
    \A k \in DOMAIN vocabs :
        vocabs[k].min_count >= 1 =>
            LET toks == TokensFrom(vocabs[k].caption_fpath, 1)
            IN /\ \A w \in Words :
                    DictHas(vocabs[k].word2idx, w)
                      <=> (DictHas(Configured, w)
                           \/ Frequency(w, vocabs[k].caption_fpath) >= vocabs[k].min_count)
               /\ vocabs[k].n_words_untrimmed = Len(toks)
               /\ vocabs[k].n_vocabs_untrimmed = Cardinality(Range(toks))

\* C8 (as claimed): two builds over the same caption file with the same
\* min_count on the same configured mapping yield the same word2idx.
C8_SameInputsSameMapping ==
    \A i, j \in DOMAIN vocabs :
        (vocabs[i].caption_fpath = vocabs[j].caption_fpath
         /\ vocabs[i].min_count = vocabs[j].min_count)
            => vocabs[i].word2idx = vocabs[j].word2idx

FloorIndex(i, n, k) == ((i - 1) * (n - 1)) \div (k - 1)

\* what C10 states whatever the index formula: the sample of an input of at
\* least n_sample frames is a new list of n_sample frames, those at the
\* sample indices, which increase strictly from 0 to n - 1; a shorter input
\* is returned itself, unchanged
SampleShape ==
    LET n == Len(frames_in.items)
        k == n_sample
        idx == samples.sample_indices
    IN IF n >= k
       THEN /\ ~samples.same
            /\ Len(samples.items) = k /\ Len(idx) = k
            /\ \A i \in 1..k : samples.items[i] = frames_in.items[idx[i] + 1]
            /\ \A i \in 1..(k - 1) : idx[i] < idx[i + 1]
            /\ k >= 1 => idx[1] = 0
            /\ k >= 2 => idx[k] = n - 1
       ELSE samples.same /\ samples.items = frames_in.items

\* C10 (as claimed): the i-th sample is the frame at floor(i*(n-1)/(k-1)).
C10_IndicesAreFloors ==
    pc \in { "sampled", "padded" } =>
        /\ SampleShape
        /\ (Len(frames_in.items) >= n_sample /\ n_sample >= 2) =>
              \A i \in 1..n_sample :
                  samples.sample_indices[i] = FloorIndex(i, Len(frames_in.items), n_sample)

\* What UniformSample does guarantee: the i-th sample index is int() of the
\* double i * ((n-1)/(k-1)): the floor, or one less where the quotient is a
\* whole number that the double product falls just short of.
IndicesTruncateLinspace ==
    pc \in { "sampled", "padded" } =>
        /\ SampleShape
        /\ (Len(frames_in.items) >= n_sample /\ n_sample >= 2) =>
              \A i \in 1..n_sample :
                  LET n == Len(frames_in.items)
                      f == FloorIndex(i, n, n_sample)
                  IN \/ samples.sample_indices[i] = f
                     \/ /\ samples.sample_indices[i] = f - 1
                        /\ ((i - 1) * (n - 1)) % (n_sample - 1) = 0

\* a sample whose index is one less than the floor
SampleBelowFloor ==
    /\ pc = "sampled"
    /\ Len(frames_in.items) >= n_sample /\ n_sample >= 2
    /\ \E i \in 1..n_sample :
          samples.sample_indices[i] = FloorIndex(i, Len(frames_in.items), n_sample) - 1

====
